---- MODULE Spec2Model ----
(***************************************************************************)
(* Model of src/agent.py: one Streamlit script run per chat input.  A run  *)
(* appends the user message to the session transcript, builds the request  *)
(* history, asks the model, and runs the tool loop until the model answers *)
(* without function calls.  The model SDK and the calendar / search        *)
(* backends are the environment: their answers are nondeterministic.       *)
(***************************************************************************)
EXTENDS Integers, Sequences, FiniteSets, TLC

\* ---------------------------------------------------------------- bounds
\* number of chat inputs (script runs) explored
MaxTurns == 2
\* number of function calls the model emits within one turn
MaxTurnCalls == 2

\* ------------------------------------------------------- environment data
\* what the user may type into st.chat_input
Prompts == {"que pasa"}

\* datetime.now(london_tz) formatted, one reading per script run
Clock == <<"Mon 09:00", "Mon 09:05", "Mon 09:10", "Mon 09:15",
           "Mon 09:20", "Mon 09:25", "Mon 09:30", "Mon 09:35">>

current_time_at(run) == Clock[run]

\* text of a model response that carries no function call
AnswerText == <<"Alright, direct mode on.">>

\* text the model puts next to its function calls
ToolCallText == <<"Let me check.">>

\* the exception message of a failing backend call
BackendError == "backend unavailable"

\* ------------------------------------------------------------- the tools
tools_list == <<"list_upcoming_events", "create_calendar_event",
                "delete_calendar_event", "search_web">>

ToolNames == {tools_list[k] : k \in 1..Len(tools_list)}

\* a function name the model may hallucinate
UnknownName == "send_email"

\* keyword parameters of each wrapper (all without defaults)
Params(name) ==
  CASE name = "list_upcoming_events"  -> {}
    [] name = "create_calendar_event" -> {"summary", "start_time", "end_time"}
    [] name = "delete_calendar_event" -> {"event_id"}
    [] name = "search_web"            -> {"query"}
    [] OTHER                          -> {}

\* f(**args) binds iff the keywords are exactly the parameters
Binds(name, args) == args = Params(name)

\* ---- the four wrappers: [raised, result, invoked]
\* invoked is the sequence of wrapper executions (name, backend outcome)

\* variant: a failed backend call is tried a second time
ReturnedAfterRetry(name, ok, result) ==
  [raised |-> FALSE, result |-> result,
   invoked |-> IF ok THEN <<[name |-> name, backend_ok |-> ok]>>
               ELSE <<[name |-> name, backend_ok |-> ok], [name |-> name, backend_ok |-> ok]>>]

Returned(name, ok, result) ==
  [raised |-> FALSE, result |-> result,
   invoked |-> <<[name |-> name, backend_ok |-> ok]>>]

list_upcoming_events(ok) ==
  Returned("list_upcoming_events", ok,
           IF ok THEN <<"No upcoming events found.">>
                 ELSE <<"Error: ", BackendError>>)

create_calendar_event(ok) ==
  Returned("create_calendar_event", ok,
           IF ok THEN <<"Event created: ", "htmlLink">>
                 ELSE <<"Error: ", BackendError>>)

delete_calendar_event(ok) ==
  Returned("delete_calendar_event", ok,
           IF ok THEN <<"Event deleted successfully.">>
                 ELSE <<"Error: ", BackendError>>)

\* variant: no try / except around the search call
search_webUnguarded(ok) ==
  IF ok THEN [raised |-> FALSE,
              result |-> <<"Direct Answer: ", "answer", "\n\nDetailed Context:\n">>,
              invoked |-> <<[name |-> "search_web", backend_ok |-> ok]>>]
  ELSE [raised |-> TRUE, result |-> <<>>,
        invoked |-> <<[name |-> "search_web", backend_ok |-> ok]>>]

search_web(ok) ==
  Returned("search_web", ok,
           IF ok THEN <<"Direct Answer: ", "answer", "\n\nDetailed Context:\n">>
                 ELSE <<"Search Error: ", BackendError>>)

\* a TypeError raised at the call site, before any wrapper body runs
TypeErrorRaised == [raised |-> TRUE, result |-> <<>>, invoked |-> <<>>]

\* variant: a dictionary lookup of the name, which raises KeyError
UnknownToolRaises == [raised |-> TRUE, result |-> <<>>, invoked |-> <<>>]

UnknownTool ==
  [raised |-> FALSE, result |-> <<"Error: Unknown tool.">>, invoked |-> <<>>]

\* the if / elif chain of the tool loop
Dispatch(fn_name, fn_args, ok) ==
  IF fn_name = "list_upcoming_events" THEN list_upcoming_events(ok)
  ELSE IF fn_name = "create_calendar_event" THEN
    IF Binds(fn_name, fn_args) THEN create_calendar_event(ok) ELSE TypeErrorRaised
  ELSE IF fn_name = "delete_calendar_event" THEN
    IF Binds(fn_name, fn_args) THEN delete_calendar_event(ok) ELSE TypeErrorRaised
  ELSE IF fn_name = "search_web" THEN
    IF Binds(fn_name, fn_args) THEN search_web(ok) ELSE TypeErrorRaised
  ELSE UnknownTool

\* ------------------------------------------------------ contents and parts
TextPart(t) == [text |-> t]
FunctionCallPart(fc) == [function_call |-> fc]
FunctionResponsePart(name, result) ==
  [function_response |-> [name |-> name, response |-> [result |-> result]]]

Content(role, parts) == [role |-> role, parts |-> parts]

\* role = "model" if msg["role"] == "assistant" else "user"
RoleOf(msg) == IF msg.role = "assistant" THEN "model" ELSE "user"

\* the loop that builds gemini_history from the transcript
BuildHistory(msgs) ==
  [k \in 1..Len(msgs) |-> Content(RoleOf(msgs[k]), <<TextPart(msgs[k].content)>>)]

\* the f-string: the time, then the persona and the rules
SysInstruct(now) ==
  <<"Current Date and Time: ", now, "You are Mimi",
    "EARLIER than the current time (", now, ")">>

Reminder(sys) == <<"\n\n(SYSTEM REMINDER: ">> \o sys \o <<")">>

\* variant: the reminder is added to every user message of the history
WithReminderEverywhere(history, sys) ==
  [k \in 1..Len(history) |->
     IF history[k].role = "user"
     THEN [history[k] EXCEPT !.parts[1].text = @ \o Reminder(sys)]
     ELSE history[k]]

\* gemini_history[-1].parts[0].text += reminder, when the last role is user
WithReminder(history, sys) ==
  IF history # <<>> /\ history[Len(history)].role = "user"
  THEN [history EXCEPT ![Len(history)].parts[1].text = @ \o Reminder(sys)]
  ELSE history

\* response.candidates[0].content of a response
ModelContent(resp) ==
  Content("model",
          (IF resp.text = <<>> THEN <<>> ELSE <<TextPart(resp.text)>>)
          \o [k \in 1..Len(resp.function_calls) |-> FunctionCallPart(resp.function_calls[k])])

\* --------------------------------------------------------- the requests
InitialConfig(sys) == [system_instruction |-> sys, tools |-> tools_list]

\* variant: the follow-up configuration is left empty
FollowUpConfigBare(sys) == [system_instruction |-> <<>>, tools |-> <<>>]

FollowUpConfig(sys) == [system_instruction |-> sys, tools |-> <<>>]

InitialRequest(history, sys) ==
  [model |-> "gemini-2.5-flash", contents |-> history, config |-> InitialConfig(sys)]

FollowUpContents(history, prts) == Append(history, Content("user", prts))

FollowUpRequest(history, prts, sys) ==
  [model |-> "gemini-1.5-flash", contents |-> FollowUpContents(history, prts),
   config |-> FollowUpConfig(sys)]

NoRequest == [model |-> "", contents |-> <<>>, config |-> [system_instruction |-> <<>>, tools |-> <<>>]]

\* ------------------------------------------------ what the model may answer
NoResponse == [function_calls |-> <<>>, text |-> <<>>]

\* keyword arguments the model may attach: the right ones or a wrong one
ArgChoices(name) ==
  IF name = UnknownName THEN {{}} ELSE {Params(name), {"bogus"}}

\* fc.name and fc.args of a function call the model may emit
ModelCalls ==
  UNION {{[name |-> n, args |-> a] : a \in ArgChoices(n)} :
           n \in ToolNames \cup {UnknownName}}

FinalResponse == [function_calls |-> <<>>, text |-> AnswerText]

ToolResponses(n) ==
  {[function_calls |-> fcs, text |-> ToolCallText] : fcs \in UNION {[1..k -> ModelCalls] : k \in 1..n}}

\* variant: the tool loop is skipped
LoopCondNever(resp) == FALSE

\* variant: while True without a break
LoopCondAlways(resp) == TRUE

\* the loop condition: while response.function_calls
LoopCond(resp) == resp.function_calls # <<>>

\* variant: the error text is stored as an assistant message
OnExceptionStored(msgs) == Append(msgs, [role |-> "assistant", content |-> <<"An error occurred">>])

\* the except branch: st.error only, the transcript is left alone
OnException(msgs) == msgs

\* ------------------------------------------------------------------ state
VARIABLES
  messages,        \* st.session_state.messages
  current_time,    \* the time string of this script run
  gemini_history,  \* the per-run request history
  response,        \* the latest model response
  parts,           \* function-response parts of the round in progress
  idx,             \* position of the for loop in response.function_calls (1-based)
  pc,              \* "idle" | "ask" | "loop" | "dispatch"
  ui_error,        \* st.error was shown by this run
  request,         \* the most recent generate_content request of this run
  requests,        \* number of generate_content requests of this run
  rounds,          \* completed dispatch rounds of this run
  invoked,         \* per dispatched call of this round: the wrapper executions
  turns            \* script runs started

vars == <<messages, current_time, gemini_history, response, parts, idx, pc,
          ui_error, request, requests, rounds, invoked, turns>>

sys_instruct == SysInstruct(current_time)

RECURSIVE CallsIn(_)
CallsIn(rs) ==
  IF rs = <<>> THEN 0 ELSE Len(rs[1].calls) + CallsIn(Tail(rs))

\* function calls the model may still emit in this turn
Budget == MaxTurnCalls - CallsIn(rounds)

Init ==
  /\ messages = <<>>
  /\ current_time = current_time_at(1)
  /\ gemini_history = <<>>
  /\ response = NoResponse
  /\ parts = <<>>
  /\ idx = 0
  /\ pc = "idle"
  /\ ui_error = FALSE
  /\ request = NoRequest
  /\ requests = 0
  /\ rounds = <<>>
  /\ invoked = <<>>
  /\ turns = 0

\* lines 21-23, 105-183: a chat input starts a script run
SubmitPrompt(prompt) ==
  /\ pc = "idle"
  /\ turns < MaxTurns
  /\ turns' = turns + 1
  /\ current_time' = current_time_at(turns + 1)
  /\ messages' = Append(messages, [role |-> "user", content |-> <<prompt>>])
  /\ gemini_history' = WithReminder(BuildHistory(messages'), SysInstruct(current_time'))
  /\ response' = NoResponse
  /\ parts' = <<>>
  /\ idx' = 0
  /\ ui_error' = FALSE
  /\ request' = NoRequest
  /\ requests' = 0
  /\ rounds' = <<>>
  /\ invoked' = <<>>
  /\ pc' = "ask"

\* lines 225-226: any exception inside the try ends the run
Abort ==
  /\ ui_error' = TRUE
  /\ messages' = OnException(messages)
  /\ pc' = "idle"

\* lines 189-196: the first request, answered by the model
InitialGenerate(resp) ==
  /\ pc = "ask"
  /\ request' = InitialRequest(gemini_history, sys_instruct)
  /\ requests' = requests + 1
  /\ response' = resp
  /\ pc' = "loop"
  /\ UNCHANGED <<messages, current_time, gemini_history, parts, idx, ui_error,
                 rounds, invoked, turns>>

\* lines 189-196: the first request raises (network, quota, ...)
InitialGenerateRaises ==
  /\ pc = "ask"
  /\ request' = InitialRequest(gemini_history, sys_instruct)
  /\ requests' = requests + 1
  /\ Abort
  /\ UNCHANGED <<current_time, gemini_history, response, parts, idx, rounds,
                 invoked, turns>>

\* lines 199-201: the loop condition holds, a dispatch round starts
EnterRound ==
  /\ pc = "loop"
  /\ LoopCond(response)
  /\ parts' = <<>>
  /\ invoked' = <<>>
  /\ gemini_history' = Append(gemini_history, ModelContent(response))
  /\ idx' = 1
  /\ pc' = "dispatch"
  /\ UNCHANGED <<messages, current_time, response, ui_error, request, requests,
                 rounds, turns>>

\* lines 222-223: the loop condition fails, the answer is rendered and stored
RenderAnswer ==
  /\ pc = "loop"
  /\ ~LoopCond(response)
  /\ messages' = Append(messages, [role |-> "assistant", content |-> response.text])
  /\ pc' = "idle"
  /\ UNCHANGED <<current_time, gemini_history, response, parts, idx, ui_error,
                 request, requests, rounds, invoked, turns>>

\* lines 203-214: one iteration of the for loop that returns a result
DispatchCall(ok) ==
  /\ pc = "dispatch"
  /\ idx <= Len(response.function_calls)
  /\ LET fc == response.function_calls[idx]
         out == Dispatch(fc.name, fc.args, ok)
     IN /\ ~out.raised
        /\ parts' = Append(parts, FunctionResponsePart(fc.name, out.result))
        /\ invoked' = Append(invoked, out.invoked)
        /\ idx' = idx + 1
  /\ UNCHANGED <<messages, current_time, gemini_history, response, pc, ui_error,
                 request, requests, rounds, turns>>

\* lines 209-211: one iteration of the for loop whose call raises
DispatchRaises(ok) ==
  /\ pc = "dispatch"
  /\ idx <= Len(response.function_calls)
  /\ LET fc == response.function_calls[idx]
         out == Dispatch(fc.name, fc.args, ok)
     IN /\ out.raised
        /\ invoked' = Append(invoked, out.invoked)
  /\ Abort
  /\ UNCHANGED <<current_time, gemini_history, response, parts, idx, request,
                 requests, rounds, turns>>

CompletedRound ==
  [calls |-> response.function_calls, content |-> ModelContent(response),
   parts |-> parts, invoked |-> invoked]

\* line 216: the for loop is over.  A round dispatches at least one call, so
\* the last conjunct holds of every run of the loop; it only keeps the state
\* space finite.
RoundOver ==
  /\ pc = "dispatch"
  /\ idx > Len(response.function_calls)
  /\ Len(rounds) < MaxTurnCalls + 1

\* lines 216-220: the results are sent, the model replies

FollowUpGenerate(resp) ==
  /\ RoundOver
  /\ request' = FollowUpRequest(gemini_history, parts, sys_instruct)
  /\ requests' = requests + 1
  /\ rounds' = Append(rounds, CompletedRound)
  /\ response' = resp
  /\ pc' = "loop"
  /\ UNCHANGED <<messages, current_time, gemini_history, parts, idx, ui_error,
                 invoked, turns>>

\* lines 216-220: the follow-up request raises
FollowUpGenerateRaises ==
  /\ RoundOver
  /\ request' = FollowUpRequest(gemini_history, parts, sys_instruct)
  /\ requests' = requests + 1
  /\ rounds' = Append(rounds, CompletedRound)
  /\ Abort
  /\ UNCHANGED <<current_time, gemini_history, response, parts, idx, invoked, turns>>

ModelAnswers ==
  \/ InitialGenerate(FinalResponse)
  \/ FollowUpGenerate(FinalResponse)

ModelCallsTools ==
  \/ \E resp \in ToolResponses(Budget) : InitialGenerate(resp)
  \/ \E resp \in ToolResponses(Budget - Len(response.function_calls)) : FollowUpGenerate(resp)

Next ==
  \/ \E prompt \in Prompts : SubmitPrompt(prompt)
  \/ ModelAnswers
  \/ ModelCallsTools
  \/ InitialGenerateRaises
  \/ EnterRound
  \/ RenderAnswer
  \/ \E ok \in BOOLEAN : DispatchCall(ok)
  \/ \E ok \in BOOLEAN : DispatchRaises(ok)
  \/ FollowUpGenerateRaises

Spec == Init /\ [][Next]_vars

\* a step of the script that waits for nothing
ProgramStep ==
  \/ EnterRound
  \/ RenderAnswer
  \/ \E ok \in BOOLEAN : DispatchCall(ok)
  \/ \E ok \in BOOLEAN : DispatchRaises(ok)

\* the model's reply arrives: a final answer, tool calls, or an exception
ModelReplies ==
  \/ ModelAnswers
  \/ ModelCallsTools
  \/ InitialGenerateRaises
  \/ FollowUpGenerateRaises

\* The script runs to its end (no step of it waits), every generate_content
\* call returns or raises, and the model eventually answers without calls.
Fairness ==
  /\ WF_vars(ProgramStep)
  /\ WF_vars(ModelReplies)
  /\ SF_vars(ModelAnswers)

LiveSpec == Spec /\ Fairness

\* ------------------------------------------------------- claim vocabulary
Last(s) == s[Len(s)]

InTurn == pc \in {"ask", "loop", "dispatch"}

\* the turn ended by storing an answer
Answered == pc = "idle" /\ turns > 0 /\ ~ui_error

\* the rounds of this turn, the one in progress included
RoundViews ==
  [k \in 1..Len(rounds) |-> rounds[k]] \o
  (IF \/ pc = "dispatch"
      \/ (pc = "idle" /\ ui_error /\ idx \in 1..Len(response.function_calls))
   THEN <<CompletedRound>> ELSE <<>>)

IsCompleted(k) == k <= Len(rounds)

ResultOf(part) == part.function_response.response.result

ErrorPrefix(name) == IF name = "search_web" THEN "Search Error: " ELSE "Error: "

CountRole(msgs, role) == Cardinality({k \in 1..Len(msgs) : msgs[k].role = role})

HasReminder(text) == \E k \in 1..Len(text) : text[k] = "\n\n(SYSTEM REMINDER: "

\* ------------------------------------------------------------------ claims

\* C1: within a turn the stored answer is the text of a response without
\* function calls, and whenever a follow-up response is consulted every
\* function call of the previous response has been executed and its result
\* was the last content of the request that produced the response.
C1_AnswerOnlyAfterAllCalls ==
  /\ (pc = "idle" /\ messages # <<>> /\ Last(messages).role = "assistant")
       => /\ response.function_calls = <<>>
          /\ Last(messages).content = response.text
  /\ (pc = "loop" /\ rounds # <<>>)
       => LET r == Last(rounds) IN
          /\ Len(r.parts) = Len(r.calls)
          /\ \A j \in 1..Len(r.calls) : r.parts[j].function_response.name = r.calls[j].name
          /\ Last(request.contents) = Content("user", r.parts)
          /\ requests = Len(rounds) + 1
  /\ pc = "loop" => requests = Len(rounds) + 1

C1_Witness ==
  /\ Answered
  /\ Len(rounds) = 2
  /\ Last(messages).content = AnswerText

\* C2: every follow-up request holds, for every completed round of the turn,
\* the model's function-call content directly followed by the user content
\* with that round's function-response parts.
C2_EveryRoundResent ==
  requests > 1 =>
    \A k \in 1..Len(rounds) :
      \E j \in 1..(Len(request.contents) - 1) :
        /\ request.contents[j] = rounds[k].content
        /\ request.contents[j + 1] = Content("user", rounds[k].parts)

\* C3: every model request of a turn is configured with the tools list.
C3_ToolsInEveryRequest ==
  requests > 0 => request.config.tools = tools_list

\* C4: every model request of a turn carries sys_instruct of this run.
C4_SameSystemInstruction ==
  requests > 0 => request.config.system_instruction = sys_instruct

C4_Witness ==
  /\ turns = 2
  /\ requests = 2
  /\ request.model = "gemini-1.5-flash"
  /\ request.config.system_instruction = SysInstruct(current_time_at(2))

\* C5: the turn ends with an answer only on a response without function
\* calls; such a response always leads to the stored answer; and, the model
\* eventually answering, every turn ends.
C5_TurnEndsWhenModelStops ==
  /\ [](Answered => response.function_calls = <<>>)
  /\ (pc = "loop" /\ response.function_calls = <<>>)
       ~> (Answered /\ Last(messages) = [role |-> "assistant", content |-> response.text])
  /\ InTurn ~> (pc = "idle")

C5_Witness ==
  /\ Answered
  /\ CallsIn(rounds) = MaxTurnCalls
  /\ Len(rounds) = MaxTurnCalls

\* C6: a wrapper whose backend fails returns its error string: the call's
\* part carries "Error: " / "Search Error: " and the exception text, the for
\* loop moves on, and the part is in the follow-up request.
C6_BackendFailureBecomesResult ==
  \A k \in 1..Len(RoundViews) :
    LET r == RoundViews[k] IN
    \A j \in 1..Len(r.invoked) :
      \A e \in 1..Len(r.invoked[j]) :
        ~r.invoked[j][e].backend_ok =>
          /\ j <= Len(r.parts)
          /\ ResultOf(r.parts[j]) = <<ErrorPrefix(r.invoked[j][e].name), BackendError>>
          /\ (IsCompleted(k) /\ k = Len(rounds) /\ requests = Len(rounds) + 1)
               => Last(request.contents).parts[j] = r.parts[j]

C6_Witness ==
  /\ pc = "loop"
  /\ Len(rounds) = 1
  /\ Len(rounds[1].calls) = 2
  /\ rounds[1].calls[1].name = "search_web"
  /\ rounds[1].calls[2].name = "delete_calendar_event"
  /\ ~rounds[1].invoked[1][1].backend_ok
  /\ ~rounds[1].invoked[2][1].backend_ok

\* C7: in a completed round every call has one part with its name, in the
\* order of the calls, and every call naming a tool ran that wrapper once.
C7_OneShotInOrder ==
  \A k \in 1..Len(rounds) :
    LET r == rounds[k] IN
    /\ Len(r.parts) = Len(r.calls)
    /\ Len(r.invoked) = Len(r.calls)
    /\ \A j \in 1..Len(r.calls) :
         /\ r.parts[j].function_response.name = r.calls[j].name
         /\ r.calls[j].name \in ToolNames =>
              /\ Len(r.invoked[j]) = 1
              /\ r.invoked[j][1].name = r.calls[j].name
    /\ (k = Len(rounds) /\ pc = "loop") =>
         /\ Len(Last(request.contents).parts) = Len(r.calls)
         /\ \A j \in 1..Len(r.calls) :
              Last(request.contents).parts[j].function_response.name = r.calls[j].name

C7_Witness ==
  /\ Len(rounds) = 1
  /\ Len(rounds[1].calls) = 2
  /\ rounds[1].calls[1].name = "create_calendar_event"
  /\ rounds[1].calls[2].name = "list_upcoming_events"
  /\ ~rounds[1].invoked[1][1].backend_ok

\* C8: a call of an unknown name runs no wrapper, yields the part
\* "Error: Unknown tool." under that name and lets the round go on.
C8_UnknownToolIsAnError ==
  \A k \in 1..Len(RoundViews) :
    LET r == RoundViews[k] IN
    \A j \in 1..Len(r.invoked) :
      r.calls[j].name \notin ToolNames =>
        /\ r.invoked[j] = <<>>
        /\ j <= Len(r.parts)
        /\ r.parts[j] = FunctionResponsePart(r.calls[j].name, <<"Error: Unknown tool.">>)

C8_Witness ==
  /\ pc = "loop"
  /\ Len(rounds) = 1
  /\ Len(rounds[1].calls) = 2
  /\ rounds[1].calls[1].name = UnknownName
  /\ rounds[1].calls[2].name = "search_web"
  /\ Len(rounds[1].invoked[2]) = 1

\* what one step may do to the transcript
C9_Step ==
  /\ Len(messages') >= Len(messages)
  /\ SubSeq(messages', 1, Len(messages)) = messages
  /\ (pc = "idle" /\ pc' # "idle")
       => /\ Len(messages') = Len(messages) + 1
          /\ Last(messages').role = "user"
  /\ (pc # "idle" /\ pc' # "idle") => messages' = messages
  /\ (pc # "idle" /\ pc' = "idle" /\ ui_error') => messages' = messages
  /\ (pc # "idle" /\ pc' = "idle" /\ ~ui_error')
       => /\ Len(messages') = Len(messages) + 1
          /\ Last(messages').role = "assistant"

\* what every transcript looks like
C9_State ==
  /\ CountRole(messages, "user") = turns
  /\ CountRole(messages, "assistant") <= CountRole(messages, "user")
  /\ \A k \in 1..(Len(messages) - 1) :
       ~(messages[k].role = "assistant" /\ messages[k + 1].role = "assistant")
  /\ (pc = "idle" /\ turns > 0) => (ui_error <=> Last(messages).role = "user")

\* C9: the transcript only grows by appends; a turn appends the user message
\* when it starts, nothing while it runs, and at its end the assistant
\* message exactly when no exception was shown; so assistants never
\* outnumber users and no two assistant messages are adjacent.
C9_TranscriptAppendOnly == [](C9_State) /\ [][C9_Step]_vars

C9_Witness ==
  /\ pc = "idle"
  /\ ui_error
  /\ idx = 1
  /\ response.function_calls[1] = [name |-> "delete_calendar_event", args |-> {"bogus"}]
  /\ Len(messages) = 3
  /\ messages[2].role = "assistant"
  /\ messages[3].role = "user"

\* C10: the stored transcript never holds the reminder; the request history
\* starts with one text content per stored message, in order, with the
\* mapped role, and only the last of them carries the reminder; whatever
\* follows them comes from the rounds of this turn.
C10_HistoryMirrorsTranscript ==
  /\ \A k \in 1..Len(messages) : ~HasReminder(messages[k].content)
  /\ InTurn =>
       LET n == Len(messages) IN
       /\ Len(gemini_history) = n + Len(RoundViews)
       /\ requests = 1 => request.contents = SubSeq(gemini_history, 1, n)
       /\ \A k \in 1..n :
            /\ gemini_history[k].role =
                 (IF messages[k].role = "assistant" THEN "model" ELSE "user")
            /\ gemini_history[k].parts =
                 <<TextPart(IF k = n THEN messages[k].content \o Reminder(sys_instruct)
                                     ELSE messages[k].content)>>
       /\ \A k \in 1..Len(RoundViews) : gemini_history[n + k] = RoundViews[k].content

C10_Witness ==
  /\ turns = 2
  /\ pc = "loop"
  /\ requests = 1
  /\ Len(messages) = 3
  /\ messages[2].role = "assistant"
  /\ Len(request.contents) = 3

====
